---- MODULE Spec2Model ----
(***************************************************************************)
(* Model of mag/mag.py: the MAG client of a paginated search API.          *)
(*                                                                         *)
(* One MAG instance is modelled.  The remote service is the environment:   *)
(* every fetch call is answered by an arbitrary batch of entities (of any  *)
(* length, whatever the page size asked for) or fails.                     *)
(* download_publications consumes the generator yield_records through      *)
(* list(), so the generator's frame (params copy, data, position in the    *)
(* batch) and the list under construction are state of the model.          *)
(***************************************************************************)
EXTENDS Integers, Sequences, FiniteSets, TLC

VARIABLES
    params,      \* self.params (expr, offset, count, attributes, model, key)
    json_data,   \* self.json_data   (None or a list of raw entities)
    json_foses,  \* self.json_foses  (None or a list of field-of-study entities)
    table_data,  \* self.table_data  (None or a data frame)
    pc,          \* where the running call stands; "idle" when none runs
    req,         \* yield_records: the local copy `params`
    downloaded,  \* yield_records: the local counter `downloaded`
    data,        \* yield_records: data["entities"] of the last fetch
    idx,         \* process: 1-based position of the next item of `data`
    records,     \* download_publications: the list built from the generator (kept
                 \* after the call, as the record of what the generator yielded)
    todo,        \* fetch_foses: members of unique_foses not yet visited
    foses,       \* fetch_foses: the local list `foses`
    last,        \* history: the last call made on the instance, with its arguments
    before,      \* history: the instance's data when that call started
    fetchLog,    \* history: the fetch calls of the last pagination run, in order
    served,      \* history: every entity the last pagination run was served
    trail,       \* history: what yield_records did since its last fetch
    sleeps,      \* history: number of sleep(3.1) calls of the last run
    slept,       \* history: time slept in the last run, in tenths
    written,     \* history: the files the last call wrote
    raised,      \* history: the exception the last call ended with, or "none"
    gen,         \* history: the generator of the last run: running, done or error
    calls,       \* history: fetch calls issued over the instance's life
    sent,        \* history: entities the service returned over the instance's life
    service      \* environment: the list the service holds, or None when it may
                 \* answer a fetch with any batch

vars == <<params, json_data, json_foses, table_data, pc, req, downloaded, data,
          idx, records, todo, foses, last, before, fetchLog, served, trail, sleeps,
          slept,
          written, raised, gen, calls, sent, service>>

instance == <<params, json_data, json_foses, table_data>>
frame    == <<req, downloaded, data, idx, records>>
fosframe == <<todo, foses>>
runhist  == <<fetchLog, served, trail, sleeps, slept, gen>>

---------------------------------------------------------------------------
(* Bounds of the model.                                                    *)
MaxFetch == 4      \* fetch calls issued over the life of the instance
MaxServed == 3     \* entities the service returns over the life of the instance
MaxCount == 2      \* largest page size (count) an instance is built with

(* sleep(3.1), in tenths of a second.                                      *)
SleepTenths == 31

StartOffsets == {0, 5}

---------------------------------------------------------------------------
(* Python values.                                                          *)
None == <<>>
Some(x) == <<x>>
NaN == "NaN"

Without(d, k) == [x \in (DOMAIN d) \ {k} |-> d[x]]
With(d, k, v) == [x \in (DOMAIN d) \cup {k} |-> IF x = k THEN v ELSE d[x]]

RECURSIVE Join(_, _)
Join(strs, sep) ==
    IF strs = <<>> THEN ""
    ELSE IF Len(strs) = 1 THEN strs[1]
    ELSE strs[1] \o sep \o Join(Tail(strs), sep)

Digit(d) ==
    CASE d = 0 -> "0" [] d = 1 -> "1" [] d = 2 -> "2" [] d = 3 -> "3"
      [] d = 4 -> "4" [] d = 5 -> "5" [] d = 6 -> "6" [] d = 7 -> "7"
      [] d = 8 -> "8" [] d = 9 -> "9"

RECURSIVE str(_)
str(n) ==
    IF n < 0 THEN "-" \o str(-n)
    ELSE IF n < 10 THEN Digit(n)
    ELSE str(n \div 10) \o Digit(n % 10)

---------------------------------------------------------------------------
(* MAG.ENTITIES: attribute code -> column name.                            *)
ENTITIES ==
    [Id |-> "mag_ID", DN |-> "original_paper_title", Ti |-> "normalized_title",
     W |-> "normalized_words_in_title", AW |-> "normalized_words_in_abstract",
     RA |-> "restored_abstract", IA |-> "inverted_abstract", AA |-> "authors",
     AuId |-> "author_id", DAuN |-> "author_name", Y |-> "year_published",
     D |-> "isodate_published", DOI |-> "DOI", J |-> "journals",
     JN |-> "journal_name", PB |-> "publisher", FId |-> "field_of_study_id",
     FN |-> "field_of_study"]

---------------------------------------------------------------------------
(* The entities the service may return.  A dict is a function from keys    *)
(* to values; an InvertedIndex is the sequence of its items in iteration   *)
(* order; a J value carries what isinstance() tells about it.              *)
EFull ==
    [Id |-> 1, Ti |-> "t1",
     IA |-> [IndexLength |-> 2,
             InvertedIndex |-> <<[word |-> "b", positions |-> {1}],
                                 [word |-> "a", positions |-> {0}]>>],
     AA |-> <<[AuId |-> 1, DAuN |-> "A Smith"], [AuId |-> 2, DAuN |-> "B Lee"]>>,
     F  |-> <<[FId |-> 7, FN |-> "law"], [FId |-> 8, FN |-> "crime"]>>,
     J  |-> [isa |-> "dict", JN |-> "Nature"],
     prob |-> "0.9", logprob |-> "-0.1"]

EPlain == [Id |-> 2, Ti |-> "t2"]

EBad == [Id |-> 3, AA |-> <<[AuId |-> 3]>>, prob |-> "0.5", logprob |-> "-0.7"]

Entities == {EFull, EPlain, EBad}

RECURSIVE SeqsUpTo(_, _)
SeqsUpTo(S, n) ==
    IF n = 0 THEN {<<>>}
    ELSE LET shorter == SeqsUpTo(S, n - 1)
         IN  shorter \cup {Append(s, e) : s \in {t \in shorter : Len(t) = n - 1}, e \in S}

Batches == SeqsUpTo(Entities, MaxServed)

---------------------------------------------------------------------------
(* MAG.restore_abstract.                                                   *)

\* a faulty WordsAt, for comparison: the scan stops at the first word found
RECURSIVE WordsAt_firstOnly(_, _)
WordsAt_firstOnly(words, position) ==
    IF words = <<>> THEN <<>>
    ELSE IF position \in Head(words).positions THEN <<Head(words).word>>
    ELSE WordsAt_firstOnly(Tail(words), position)

\* the inner loop: the words of the index, in its order, that claim `position`
RECURSIVE WordsAt(_, _)
WordsAt(words, position) ==
    IF words = <<>> THEN <<>>
    ELSE (IF position \in Head(words).positions THEN <<Head(words).word>> ELSE <<>>)
         \o WordsAt(Tail(words), position)

\* the outer loop: for position in range(position, total_words)
RECURSIVE TextFrom(_, _, _)
TextFrom(words, position, total_words) ==
    IF position >= total_words THEN <<>>
    ELSE WordsAt(words, position) \o TextFrom(words, position + 1, total_words)

\* a faulty restore_abstract, for comparison: the positions are counted from 1
restore_abstract_fromOne(abstract) ==
    Join(TextFrom(abstract.InvertedIndex, 1, abstract.IndexLength + 1), " ")

restore_abstract(abstract) ==
    Join(TextFrom(abstract.InvertedIndex, 0, abstract.IndexLength), " ")

---------------------------------------------------------------------------
(* MAG.process: the body of its loop, for one item.                        *)

Field(objs, k) == [n \in 1..Len(objs) |-> objs[n][k]]
\* a faulty StrField, for comparison: the objects are visited last to first
StrField_reversed(objs, k) == [n \in 1..Len(objs) |-> str(objs[Len(objs) + 1 - n][k])]

StrField(objs, k) == [n \in 1..Len(objs) |-> str(objs[n][k])]
AllHave(objs, ks) == \A n \in 1..Len(objs) : ks \subseteq DOMAIN objs[n]

FlattenIA(entity) ==
    IF "IA" \in DOMAIN entity
    THEN Without(With(entity, "RA", restore_abstract(entity["IA"])), "IA")
    ELSE entity

FlattenAA(entity) ==
    IF "AA" \in DOMAIN entity
    THEN Without(With(With(entity, "DAuN", Join(Field(entity["AA"], "DAuN"), ";")),
                      "AuId", Join(StrField(entity["AA"], "AuId"), ";")),
                 "AA")
    ELSE entity

FlattenF(entity) ==
    IF "F" \in DOMAIN entity
    THEN Without(With(entity, "FN", Join(Field(entity["F"], "FN"), ";")), "F")
    ELSE entity

\* a faulty FlattenJ, for comparison: JN is set whether or not J is present
FlattenJ_unconditional(entity) ==
    Without(With(entity, "JN",
                 IF "J" \notin DOMAIN entity THEN NaN
                 ELSE CASE entity["J"].isa = "dict" -> entity["J"]["JN"]
                        [] entity["J"].isa = "list" ->
                               Join(Field(entity["J"].items, "JN"), ";")
                        [] OTHER -> entity["J"].value),
            "J")

\* a faulty FlattenJ, for comparison: a J that is a scalar is left in place
FlattenJ_keepScalar(entity) ==
    IF "J" \in DOMAIN entity /\ entity["J"].isa # "scalar"
    THEN Without(With(entity, "JN",
                      CASE entity["J"].isa = "dict" -> entity["J"]["JN"]
                        [] OTHER -> Join(Field(entity["J"].items, "JN"), ";")),
                 "J")
    ELSE entity

FlattenJ(entity) ==
    IF "J" \in DOMAIN entity
    THEN Without(With(entity, "JN",
                      CASE entity["J"].isa = "dict" -> entity["J"]["JN"]
                        [] entity["J"].isa = "list" ->
                               Join(Field(entity["J"].items, "JN"), ";")
                        [] OTHER -> entity["J"].value),
                 "J")
    ELSE entity

\* a lookup of process that finds no such key (KeyError)
ProcessRaises(item) ==
    \/ /\ "IA" \in DOMAIN item
       /\ ~({"InvertedIndex", "IndexLength"} \subseteq DOMAIN item["IA"])
    \/ "AA" \in DOMAIN item /\ ~AllHave(item["AA"], {"DAuN", "AuId"})
    \/ "F" \in DOMAIN item /\ ~AllHave(item["F"], {"FN"})
    \/ /\ "J" \in DOMAIN item
       /\ \/ item["J"].isa = "dict" /\ "JN" \notin DOMAIN item["J"]
          \/ item["J"].isa = "list" /\ ~AllHave(item["J"].items, {"JN"})

\* entity = item.copy(): a new dict with the item's keys and values
copy(item) == [k \in DOMAIN item |-> item[k]]

\* a faulty process, for comparison: the item itself is flattened, not a copy of it
process_inplace(item) ==
    [raw |-> FlattenJ(FlattenF(FlattenAA(FlattenIA(item)))),
     processed |-> FlattenJ(FlattenF(FlattenAA(FlattenIA(item))))]

\* what one iteration yields; `raw` is the item as it is after the iteration
process(item) ==
    [raw |-> item,
     processed |-> FlattenJ(FlattenF(FlattenAA(FlattenIA(copy(item)))))]

---------------------------------------------------------------------------
(* pandas, as download_publications uses it.                               *)

RowsOf(recs, k) == [n \in 1..Len(recs) |-> recs[n][k]]

\* pd.DataFrame(list of dicts): the columns are the union of the keys
DataFrame(rows) ==
    LET cols == UNION {DOMAIN rows[n] : n \in 1..Len(rows)}
    IN  [columns |-> cols,
         rows |-> [n \in 1..Len(rows) |->
                     [c \in cols |-> IF c \in DOMAIN rows[n] THEN rows[n][c] ELSE NaN]]]

\* .drop(labels, axis=1) raises KeyError when a label is no column
DropRaises(df, labels) == ~(labels \subseteq df.columns)

Drop(df, labels) ==
    [columns |-> df.columns \ labels,
     rows |-> [n \in 1..Len(df.rows) |->
                 [c \in df.columns \ labels |-> df.rows[n][c]]]]

NewName(mapping, c) == IF c \in DOMAIN mapping THEN mapping[c] ELSE c

\* .rename(columns=mapping)
Rename(df, mapping) ==
    [columns |-> {NewName(mapping, c) : c \in df.columns},
     rows |-> [n \in 1..Len(df.rows) |->
                 [d \in {NewName(mapping, c) : c \in df.columns} |->
                     df.rows[n][CHOOSE c \in df.columns : NewName(mapping, c) = d]]]]

ScoreFields == {"prob", "logprob"}

\* lines 100-104: the table, when .drop does not raise
Table(recs) ==
    Rename(Drop(DataFrame(RowsOf(recs, "processed")), ScoreFields), ENTITIES)

TableRaises(recs) == DropRaises(DataFrame(RowsOf(recs, "processed")), ScoreFields)

---------------------------------------------------------------------------
(* MAG.__init__.                                                           *)

DefaultAttr == "DN,Ti,W,AW,IA,AA.AuId,AA.DAuN,Y,D,DOI,J.JN,PB,F.FId,F.FN"

NewParams(offset, count) ==
    [expr |-> "q", offset |-> offset, count |-> count, attributes |-> DefaultAttr,
     model |-> "latest", key |-> "k"]

Init ==
    /\ params \in {NewParams(o, c) : o \in StartOffsets, c \in 1..MaxCount}
    /\ json_data = None
    /\ json_foses = None
    /\ table_data = None
    /\ pc = "idle"
    /\ req = None /\ downloaded = 0 /\ data = None /\ idx = 0 /\ records = <<>>
    /\ todo = {} /\ foses = <<>>
    /\ last = [op |-> "__init__"]
    /\ before = [json_data |-> None, table_data |-> None, json_foses |-> None]
    /\ fetchLog = <<>> /\ served = <<>> /\ trail = <<>> /\ sleeps = 0 /\ slept = 0
    /\ written = {} /\ raised = "none" /\ gen = "none" /\ calls = 0 /\ sent = 0
    /\ service = None

---------------------------------------------------------------------------
(* MAG.download_publications and the generator MAG.yield_records.          *)

\* the instance's data, as a call finds it
Snapshot == [json_data |-> json_data, table_data |-> table_data, json_foses |-> json_foses]

\* the call starts: list() resumes the generator, which copies the parameters
DownloadStart ==
    /\ pc = "idle"
    /\ calls < MaxFetch
    /\ last' = [op |-> "download_publications"]
    /\ before' = Snapshot
    /\ pc' = "fetch"
    /\ req' = params
    /\ downloaded' = 0
    /\ data' = None /\ idx' = 0 /\ records' = <<>>
    /\ fetchLog' = <<>> /\ served' = <<>> /\ trail' = <<>>
    /\ sleeps' = 0 /\ slept' = 0
    /\ raised' = "none" /\ gen' = "running"
    /\ written' = {}
    /\ UNCHANGED <<instance, fosframe, calls, sent, service>>

LogEntry(p, n) == [offset |-> p.offset, count |-> p.count, returned |-> n]

\* a faulty Collect, for comparison: a Dataset that is populated is not populated again
Collect_once(recs) ==
    IF json_data # None
    THEN json_data' = json_data /\ table_data' = table_data /\ raised' = "none"
    ELSE /\ json_data' = Some(RowsOf(recs, "raw"))
         /\ IF TableRaises(recs)
            THEN table_data' = table_data /\ raised' = "KeyError"
            ELSE table_data' = Some(Table(recs)) /\ raised' = "none"

\* lines 99-105, once list() has the records: json_data is assigned first, then
\* the table is built and assigned unless .drop raises
Collect(recs) ==
    /\ json_data' = Some(RowsOf(recs, "raw"))
    /\ IF TableRaises(recs)
       THEN table_data' = table_data /\ raised' = "KeyError"
       ELSE table_data' = Some(Table(recs)) /\ raised' = "none"

\* a faulty AfterFetch, for comparison: an empty batch does not end the loop
AfterFetch_noBreak(batch) == IF batch = <<>> THEN "advance" ELSE "process"

\* line 195: an empty batch breaks the loop, any other is processed
AfterFetch(batch) == IF batch = <<>> THEN "break" ELSE "process"

\* self.fetch(...) answers with a batch; an empty one ends the generator
Fetch(batch) ==
    /\ pc = "fetch"
    /\ calls < MaxFetch
    /\ Len(batch) <= MaxServed - sent
    /\ calls' = calls + 1
    /\ sent' = sent + Len(batch)
    /\ fetchLog' = Append(fetchLog, LogEntry(req, Len(batch)))
    /\ served' = served \o batch
    /\ trail' = <<>>
    /\ IF AfterFetch(batch) = "break"
       THEN /\ gen' = "done"
            /\ Collect(records)
            /\ pc' = "idle"
            /\ req' = None /\ data' = None /\ idx' = 0
            /\ UNCHANGED <<params, json_foses, downloaded, records>>
       ELSE /\ pc' = AfterFetch(batch)
            /\ data' = batch /\ idx' = 1
            /\ UNCHANGED <<instance, req, downloaded, records, raised, gen>>
    /\ UNCHANGED <<fosframe, last, before, sleeps, slept, written, service>>

\* a faulty FetchFails, for comparison: what was accumulated before the failure is stored
FetchFails_keepPartial ==
    /\ pc = "fetch"
    /\ calls < MaxFetch
    /\ calls' = calls + 1
    /\ fetchLog' = Append(fetchLog, LogEntry(req, -1))
    /\ trail' = <<>>
    /\ gen' = "error" /\ raised' = "Transport"
    /\ pc' = "idle"
    /\ req' = None /\ data' = None /\ idx' = 0
    /\ json_data' = Some(RowsOf(records, "raw"))
    /\ table_data' = Some(DataFrame(RowsOf(records, "processed")))
    /\ UNCHANGED <<params, json_foses, downloaded, records, fosframe, last, before,
                   served, sleeps, slept, written, sent, service>>

\* a faulty FetchFails, for comparison: the failed call is tried again
FetchFails_retry ==
    /\ pc = "fetch"
    /\ calls < MaxFetch
    /\ calls' = calls + 1
    /\ fetchLog' = Append(fetchLog, LogEntry(req, -1))
    /\ trail' = <<>>
    /\ UNCHANGED <<instance, pc, frame, fosframe, last, before, served, sleeps, slept,
                   written, raised, gen, sent, service>>

\* self.fetch(...) raises (network error, body that is no JSON): nothing catches it
FetchFails ==
    /\ pc = "fetch"
    /\ calls < MaxFetch
    /\ calls' = calls + 1
    /\ fetchLog' = Append(fetchLog, LogEntry(req, -1))
    /\ trail' = <<>>
    /\ gen' = "error" /\ raised' = "Transport"
    /\ pc' = "idle"
    /\ req' = None /\ data' = None /\ idx' = 0
    /\ UNCHANGED <<instance, downloaded, records, fosframe, last, before, served,
                   sleeps, slept, written, sent, service>>

\* a faulty Accumulate, for comparison: a record already held is not added again
Accumulate_dedup(recs, rec) ==
    IF \E k \in 1..Len(recs) : recs[k] = rec THEN recs ELSE Append(recs, rec)

\* list(...) appends what the generator yields
Accumulate(recs, rec) == Append(recs, rec)

\* one iteration of process: the item is flattened and yielded, or a lookup raises
ProcessItem ==
    /\ pc = "process"
    /\ IF ProcessRaises(data[idx])
       THEN /\ gen' = "error" /\ raised' = "KeyError"
            /\ pc' = "idle"
            /\ req' = None /\ data' = None /\ idx' = 0
            /\ UNCHANGED <<records, trail>>
       ELSE /\ records' = Accumulate(records, process(data[idx]))
            /\ data' = [data EXCEPT ![idx] = process(data[idx]).raw]
            /\ idx' = idx + 1
            /\ trail' = Append(trail, "emit")
            /\ pc' = IF idx = Len(data) THEN "advance" ELSE "process"
            /\ UNCHANGED <<req, gen, raised>>
    /\ UNCHANGED <<instance, downloaded, fosframe, last, before, fetchLog, served,
                   sleeps, slept, written, calls, sent, service>>

\* params["offset"] += params["count"]; downloaded += len(data["entities"])
\* a faulty NextOffset, for comparison: the offset moves on by one entity, not by a page
NextOffset_byOne(p) == p.offset + 1

\* a faulty NextOffset, for comparison: the entity after each page is stepped over
NextOffset_pastPage(p) == p.offset + p.count + 1

NextOffset(p) == p.offset + p.count

\* a faulty Advance, for comparison: the offset advances by the number of entities returned
Advance_byReturned ==
    /\ pc = "advance"
    /\ req' = [req EXCEPT !.offset = req.offset + Len(data)]
    /\ downloaded' = downloaded + Len(data)
    /\ trail' = Append(trail, "advance")
    /\ pc' = "sleep"
    /\ UNCHANGED <<instance, data, idx, records, fosframe, last, before, fetchLog,
                   served, sleeps, slept, written, raised, gen, calls, sent, service>>

\* a faulty Advance, for comparison: no delay after a page that was not full
Advance_skipDelay ==
    /\ pc = "advance"
    /\ req' = [req EXCEPT !.offset = NextOffset(req)]
    /\ downloaded' = downloaded + Len(data)
    /\ trail' = Append(trail, "advance")
    /\ pc' = IF Len(data) < req.count THEN "fetch" ELSE "sleep"
    /\ UNCHANGED <<instance, data, idx, records, fosframe, last, before, fetchLog,
                   served, sleeps, slept, written, raised, gen, calls, sent, service>>

\* a faulty Advance, for comparison: the loop advances self.params itself, not a copy
Advance_aliased ==
    /\ pc = "advance"
    /\ req' = [req EXCEPT !.offset = NextOffset(req)]
    /\ params' = req'
    /\ downloaded' = downloaded + Len(data)
    /\ trail' = Append(trail, "advance")
    /\ pc' = "sleep"
    /\ UNCHANGED <<json_data, json_foses, table_data, data, idx, records, fosframe,
                   last, before, fetchLog, served, sleeps, slept, written, raised,
                   gen, calls, sent, service>>

Advance ==
    /\ pc = "advance"
    /\ req' = [req EXCEPT !.offset = NextOffset(req)]
    /\ downloaded' = downloaded + Len(data)
    /\ trail' = Append(trail, "advance")
    /\ pc' = "sleep"
    /\ UNCHANGED <<instance, data, idx, records, fosframe, last, before, fetchLog,
                   served, sleeps, slept, written, raised, gen, calls, sent, service>>

\* sleep(3.1), then the loop starts over
Sleep ==
    /\ pc = "sleep"
    /\ sleeps' = sleeps + 1
    /\ slept' = slept + SleepTenths
    /\ trail' = Append(trail, "sleep")
    /\ pc' = "fetch"
    /\ UNCHANGED <<instance, frame, fosframe, last, before, fetchLog, served, written,
                   raised, gen, calls, sent, service>>

---------------------------------------------------------------------------
(* MAG.save.                                                               *)

Targets == {None, Some("given")}

\* a faulty SaveWrites, for comparison: a target given is written whatever the data
SaveWrites_unguarded(tocsv, tojson) ==
    (IF tocsv # None THEN {"tocsv"} ELSE {})
    \cup (IF tojson # None THEN {"tojson"} ELSE {})
    \cup (IF tojson # None /\ json_foses # None THEN {"tojson_foses"} ELSE {})

\* what save writes for its arguments: each file only if its data is not None
SaveWrites(tocsv, tojson) ==
    (IF tocsv # None /\ table_data # None THEN {"tocsv"} ELSE {})
    \cup (IF tojson # None /\ json_data # None THEN {"tojson"} ELSE {})
    \cup (IF tojson # None /\ json_foses # None THEN {"tojson_foses"} ELSE {})

Save(tocsv, tojson) ==
    /\ pc = "idle"
    /\ last' = [op |-> "save", tocsv |-> tocsv, tojson |-> tojson]
    /\ before' = Snapshot
    /\ written' = SaveWrites(tocsv, tojson)
    /\ raised' = "none"
    /\ UNCHANGED <<instance, pc, frame, fosframe, runhist, calls, sent, service>>

---------------------------------------------------------------------------
(* MAG.fetch_foses.                                                        *)

FosIds(entities) ==
    UNION {{entities[n]["F"][m]["FId"] : m \in 1..Len(entities[n]["F"])} :
           n \in 1..Len(entities)}

\* the set comprehension of line 113 looks up entity["F"] and f["FId"]
FosIdsRaises(entities) ==
    \E n \in 1..Len(entities) :
        \/ "F" \notin DOMAIN entities[n]
        \/ ~AllHave(entities[n]["F"], {"FId"})

\* a faulty FosesStart, for comparison: foses already fetched are fetched again
FosesStart_refetch ==
    /\ pc = "idle"
    /\ last' = [op |-> "fetch_foses"]
    /\ before' = Snapshot
    /\ IF json_data = None
       THEN /\ raised' = "ValueError"
            /\ UNCHANGED <<instance, pc, fosframe>>
       ELSE IF FosIdsRaises(json_data[1])
       THEN /\ raised' = "KeyError"
            /\ UNCHANGED <<instance, pc, fosframe>>
       ELSE IF FosIds(json_data[1]) = {}
       THEN /\ json_foses' = Some(<<>>)
            /\ raised' = "none"
            /\ UNCHANGED <<params, json_data, table_data, pc, fosframe>>
       ELSE /\ todo' = FosIds(json_data[1])
            /\ foses' = <<>>
            /\ raised' = "none"
            /\ pc' = "foses"
            /\ UNCHANGED instance
    /\ written' = {}
    /\ UNCHANGED <<frame, runhist, calls, sent, service>>

FosesStart ==
    /\ pc = "idle"
    /\ last' = [op |-> "fetch_foses"]
    /\ before' = Snapshot
    /\ IF json_data = None \/ json_foses # None
       THEN /\ raised' = "ValueError"
            /\ UNCHANGED <<instance, pc, fosframe>>
       ELSE IF FosIdsRaises(json_data[1])
       THEN /\ raised' = "KeyError"
            /\ UNCHANGED <<instance, pc, fosframe>>
       ELSE IF FosIds(json_data[1]) = {}
       THEN /\ json_foses' = Some(<<>>)
            /\ raised' = "none"
            /\ UNCHANGED <<params, json_data, table_data, pc, fosframe>>
       ELSE /\ todo' = FosIds(json_data[1])
            /\ foses' = <<>>
            /\ raised' = "none"
            /\ pc' = "foses"
            /\ UNCHANGED instance
    /\ written' = {}
    /\ UNCHANGED <<frame, runhist, calls, sent, service>>

\* the parameters of the loop's fetch: a copy of self.params, updated
FosParams(fid) ==
    [params EXCEPT !.attributes = "Id,ECC,FL,FN,FC.FId,FC.FN,FP.FId,FP.FN",
                   !.count = 1,
                   !.expr = "And(Id=" \o str(fid) \o ", Ty='6')"]

FosesFetch(fid, answer) ==
    /\ pc = "foses"
    /\ fid \in todo
    /\ calls < MaxFetch
    /\ calls' = calls + 1
    /\ IF answer = "fails" \/ answer = "empty"
       THEN /\ raised' = IF answer = "fails" THEN "Transport" ELSE "IndexError"
            /\ pc' = "idle"
            /\ todo' = {} /\ foses' = <<>>
            /\ UNCHANGED instance
       ELSE LET got == IF answer = "entity" THEN Append(foses, [Id |-> fid]) ELSE foses
            IN  IF todo = {fid}
                THEN /\ json_foses' = Some(got)
                     /\ raised' = "none"
                     /\ pc' = "idle"
                     /\ todo' = {} /\ foses' = <<>>
                     /\ UNCHANGED <<params, json_data, table_data>>
                ELSE /\ todo' = todo \ {fid}
                     /\ foses' = got
                     /\ UNCHANGED <<instance, pc, raised>>
    /\ UNCHANGED <<frame, last, before, runhist, written, sent, service>>

---------------------------------------------------------------------------
Next ==
    \/ DownloadStart
    \/ \E batch \in Batches : Fetch(batch)
    \/ FetchFails
    \/ ProcessItem
    \/ Advance
    \/ Sleep
    \/ \E tocsv \in Targets, tojson \in Targets : Save(tocsv, tojson)
    \/ FosesStart
    \/ \E fid \in todo, answer \in {"fails", "null", "empty", "entity"} :
           FosesFetch(fid, answer)

Spec == Init /\ [][Next]_vars

---------------------------------------------------------------------------
(* Properties of the pagination run.                                       *)

Last(q) == q[Len(q)]

\* a pagination run is under way
InRun == pc \in {"fetch", "process", "advance", "sleep"}

RECURSIVE SumReturned(_)
SumReturned(log) ==
    IF log = <<>> THEN 0
    ELSE (IF Head(log).returned > 0 THEN Head(log).returned ELSE 0)
         + SumReturned(Tail(log))

\* the service answered every fetch but the last with a full page
FullPagesBefore(log) ==
    \A k \in 1..(Len(log) - 1) : log[k].returned = log[k].count

\* C1: pagination termination.  Once a fetch of a run has returned the empty
\* page, that fetch is the run's last one, the generator is done and the run
\* is over; if the N fetches before it each returned a full page of `count`
\* entities, exactly N * count entities were yielded.
PaginationTermination ==
    \A k \in 1..Len(fetchLog) :
        fetchLog[k].returned = 0 =>
            /\ k = Len(fetchLog)
            /\ gen = "done"
            /\ ~InRun
            /\ Len(records) = SumReturned(fetchLog)
            /\ FullPagesBefore(fetchLog) =>
                   Len(records) = (Len(fetchLog) - 1) * params.count

\* C1's case: two full pages, then the empty page
PaginationTerminationWitness ==
    /\ Len(fetchLog) = 3
    /\ fetchLog[3].returned = 0
    /\ FullPagesBefore(fetchLog)
    /\ Len(records) = 2 * params.count

\* C2: offset advancement.  The first fetch of a run carries the start offset
\* and every later one the offset of the fetch before it plus the page size,
\* whatever number of entities that fetch returned.
OffsetAdvancement ==
    \A k \in 1..Len(fetchLog) :
        /\ fetchLog[k].count = params.count
        /\ k = 1 => fetchLog[k].offset = params.offset
        /\ k > 1 => fetchLog[k].offset = fetchLog[k - 1].offset + params.count

\* C2's case: a third fetch after a page that was not full and one that was
OffsetAdvancementWitness ==
    /\ Len(fetchLog) = 3
    /\ fetchLog[1].returned > 0
    /\ fetchLog[1].returned < params.count
    /\ fetchLog[2].returned = params.count
    /\ params.offset > 0

---------------------------------------------------------------------------
(* Properties of download_publications and save.                           *)

Unpopulated == [json_data |-> None, table_data |-> None, json_foses |-> None]

\* download_publications was the last call and a fetch of it failed after at
\* least one page had been fetched and processed
FailedAfterPages ==
    /\ last.op = "download_publications"
    /\ raised = "Transport"
    /\ Len(fetchLog) >= 2

\* C3, as claimed: after a fetch failure that follows k >= 1 processed pages,
\* json_data holds the entities of those pages.
PartialFailureRetention ==
    FailedAfterPages => json_data = Some(served)

\* C3, amended: after such a failure the generator has yielded the entities
\* of the k pages in order, and json_data and table_data are what they were
\* before the call.
PartialFailureDiscarded ==
    FailedAfterPages =>
        /\ gen = "error"
        /\ Len(served) = SumReturned(fetchLog)
        /\ RowsOf(records, "raw") = served
        /\ json_data = before.json_data
        /\ table_data = before.table_data

\* C3's case: the third fetch of a first run fails
PartialFailureWitness ==
    /\ FailedAfterPages
    /\ Len(fetchLog) = 3
    /\ Len(records) >= 2
    /\ before = Unpopulated
    /\ json_data = None

\* a failed fetch is the last fetch of its run, and the run is over
NoFetchAfterFailure ==
    \A k \in 1..Len(fetchLog) :
        fetchLog[k].returned = -1 => k = Len(fetchLog) /\ gen = "error"

\* a run that failed is over, and slept once after each page before the failure
ErrorHalts ==
    gen = "error" => ~InRun /\ sleeps = Len(fetchLog) - 1

\* C4: no retry.  A failing fetch or a failing item ends the run: the call is
\* over with the exception raised, and from then on the run issues no fetch
\* and no delay.
NoRetry ==
    [][/\ (gen # "error" /\ gen' = "error") =>
              (pc' = "idle" /\ raised' \in {"Transport", "KeyError"})
       /\ (gen = "error" /\ gen' = "error") =>
              (fetchLog' = fetchLog /\ sleeps' = sleeps /\ slept' = slept)
       /\ NoFetchAfterFailure'
       /\ ErrorHalts']_vars

\* C4's case: an item of the second page fails to process
NoRetryWitness ==
    /\ gen = "error"
    /\ raised = "KeyError"
    /\ Len(fetchLog) = 2
    /\ sleeps = 1
    /\ pc = "idle"

\* C5: export no-op.  A save call that finds json_data, table_data and
\* json_foses all None writes no file, raises nothing and leaves them None.
ExportNoOp ==
    (last.op = "save" /\ before = Unpopulated) =>
        /\ written = {}
        /\ raised = "none"
        /\ Snapshot = before
        /\ pc = "idle"

\* C5's case: save with both targets on an instance nothing has populated
ExportNoOpWitness ==
    /\ last.op = "save"
    /\ last.tocsv # None
    /\ last.tojson # None
    /\ before = Unpopulated
    /\ calls > 0

\* download_publications was called on an instance it had populated before
SecondDownload ==
    /\ last.op = "download_publications"
    /\ before.json_data # None
    /\ before.table_data # None

\* C6, as claimed: a further download_publications starts no pagination run
\* and leaves json_data and table_data as they are.
SinglePopulation ==
    SecondDownload =>
        /\ ~InRun
        /\ fetchLog = <<>>
        /\ json_data = before.json_data
        /\ table_data = before.table_data

\* a further download_publications that ran to the empty page has replaced
\* json_data (and, unless the table raised, table_data) by what it fetched,
\* starting again from the start offset
RerunReplaces ==
    (SecondDownload /\ gen = "done") =>
        /\ fetchLog[1].offset = params.offset
        /\ json_data = Some(RowsOf(records, "raw"))
        /\ raised = "none" => table_data = Some(Table(records))

\* C6, amended: json_data and table_data, once populated, stay populated (the
\* Dataset goes from empty to populated at most once), but a further
\* download_publications is not refused: it runs and replaces them.
PopulatedOnceReplacedOften ==
    [][/\ json_data # None => json_data' # None
       /\ table_data # None => table_data' # None
       /\ RerunReplaces']_vars

\* C6's case: the second run has replaced the data of the first
SecondDownloadWitness ==
    /\ SecondDownload
    /\ gen = "done"
    /\ raised = "none"
    /\ json_data # before.json_data
    /\ table_data # before.table_data

\* download_publications was the last call and it returned normally
Downloaded ==
    /\ last.op = "download_publications"
    /\ pc = "idle"
    /\ raised = "none"

\* C7: fetch-order accumulation.  After a successful download_publications
\* the accumulated records are the served entities, batch after batch and in
\* the order served, one record per entity served (so as many as the fetches
\* returned in total), and json_data and the table have one row for each.
FetchOrderAccumulation ==
    Downloaded =>
        /\ Len(records) = SumReturned(fetchLog)
        /\ Len(records) = Len(served)
        /\ \A k \in 1..Len(records) : records[k] = process(served[k])
        /\ Len(json_data[1]) = Len(served)
        /\ table_data = Some(Table([k \in 1..Len(served) |-> process(served[k])]))

\* C7's case: two batches, with an entity served twice
FetchOrderWitness ==
    /\ Downloaded
    /\ Len(fetchLog) = 3
    /\ \E i, j \in 1..Len(served) : i < j /\ served[i] = served[j]

\* the trail of a run that has slept since its last fetch: one emit for each
\* entity of the page, then the advance, then the sleep
PacedTrail(n) == [k \in 1..(n + 2) |->
                    IF k <= n THEN "emit" ELSE IF k = n + 1 THEN "advance" ELSE "sleep"]

\* C8: pacing.  A run has slept once after each fetch before its last one and
\* at most once after the last, each time for 3.1; when it has slept after
\* the last fetch, every entity of that page was emitted and the offset
\* advanced before the sleep.
Pacing ==
    /\ fetchLog = <<>> => sleeps = 0
    /\ fetchLog # <<>> => sleeps \in {Len(fetchLog) - 1, Len(fetchLog)}
    /\ slept = SleepTenths * sleeps
    /\ (fetchLog # <<>> /\ sleeps = Len(fetchLog)) =>
           /\ trail = PacedTrail(Last(fetchLog).returned)
           /\ Last(fetchLog).returned > 0
           /\ req.offset = Last(fetchLog).offset + params.count
    /\ \A k \in 1..Len(trail) : trail[k] = "sleep" => k = Len(trail)

\* C8's case: a second fetch after a page that was not full
PacingWitness ==
    /\ Len(fetchLog) = 2
    /\ fetchLog[1].returned < params.count
    /\ sleeps = 1
    /\ slept = SleepTenths

\* C9: flattening does not mutate.  Every record yielded carries as `raw` the
\* entity exactly as it was served, the batch the generator holds is the
\* batch as served, and the json_data of a run that reached the empty page is
\* the sequence of the entities served.
RawUntouched ==
    /\ InRun \/ last.op = "download_publications" =>
           /\ Len(records) <= Len(served)
           /\ \A k \in 1..Len(records) : records[k].raw = served[k]
    /\ pc \in {"process", "advance", "sleep"} =>
           data = SubSeq(served, Len(served) - Len(data) + 1, Len(served))
    /\ (last.op = "download_publications" /\ gen = "done") =>
           json_data = Some(served)

\* C9's case: json_data holds an entity that still has IA, AA, F and J
RawUntouchedWitness ==
    /\ last.op = "download_publications"
    /\ gen = "done"
    /\ json_data # None
    /\ \E k \in 1..Len(json_data[1]) :
           {"IA", "AA", "F", "J"} \subseteq DOMAIN json_data[1][k]

\* C10, as claimed: a download_publications whose run reached the empty page
\* returns normally with json_data and table_data set, whether or not the
\* entities carry prob and logprob and also when the first page is empty.
ConditionalScoreDrop ==
    (last.op = "download_publications" /\ gen = "done") =>
        /\ raised = "none"
        /\ json_data # None
        /\ table_data # None

---------------------------------------------------------------------------
(* process and restore_abstract on their own: the generator has fetched a  *)
(* batch of one entity, drawn from TestEntities, and processes it.         *)

MaxLen == 3        \* largest IndexLength, and largest position, of an abstract
MaxAuthors == 2    \* most authors, fields of study or journals of an entity

Words == {"a", "b"}

\* the items an InvertedIndex may hold: a word and the positions it claims
IndexItems == [word : Words, positions : SUBSET (0..MaxLen)]

\* an InvertedIndex: items of distinct words, in any iteration order
Indexes ==
    {<<>>} \cup {<<i>> : i \in IndexItems}
    \cup {p \in IndexItems \X IndexItems : p[1].word # p[2].word}

\* every abstract within the bounds, well-formed or not
Abstracts == [IndexLength : 0..MaxLen, InvertedIndex : Indexes]

Authors == {[AuId |-> 1, DAuN |-> "A Smith"], [AuId |-> 2, DAuN |-> "B Lee"],
            [AuId |-> 12, DAuN |-> "C Wu"]}
Fields == {[FId |-> 7, FN |-> "law"], [FId |-> 8, FN |-> "crime"]}
Journals == {[JN |-> "Nature"], [JN |-> "Science"]}

Bases == {[Id |-> 1], [Id |-> 2, Ti |-> "t2", Y |-> "2020"],
          [Id |-> 3, prob |-> "0.9", logprob |-> "-0.1"],
          [Id |-> 4, RA |-> "old", DAuN |-> "old", AuId |-> "old", FN |-> "old",
           JN |-> "old"]}

\* the entity `base` with field k set to the value v holds, if it holds one
Given(base, k, v) == IF v = None THEN base ELSE With(base, k, v[1])

AAValues == {None, <<<<[AuId |-> 3]>>>>}
            \cup {<<v>> : v \in SeqsUpTo(Authors, MaxAuthors)}
FValues == {None} \cup {<<v>> : v \in {q \in Fields \X Fields : q[1] # q[2]}}
           \cup {<<<<>>>>} \cup {<<<<f>>>> : f \in Fields}
JValues == {None, <<[isa |-> "scalar", value |-> "Nature"]>>}
           \cup {<<[isa |-> "dict", JN |-> j.JN]>> : j \in Journals}
           \cup {<<[isa |-> "list", items |-> v]>> :
                    v \in {<<>>} \cup {q \in Journals \X Journals : q[1] # q[2]}}
IAValues == {None, <<EFull.IA>>}

TestEntities ==
    {With([Id |-> 1], "IA", a) : a \in Abstracts}
    \cup {Given(Given(Given(Given(b, "IA", ia), "AA", aa), "F", f), "J", j) :
            b \in Bases, ia \in IAValues, aa \in AAValues, f \in FValues,
            j \in JValues}

\* yield_records has fetched the batch <<e>> and is about to process it
InitProcess ==
    /\ params = NewParams(0, 1)
    /\ json_data = None /\ json_foses = None /\ table_data = None
    /\ pc = "process"
    /\ req = params /\ downloaded = 0
    /\ \E e \in TestEntities : data = <<e>> /\ served = <<e>>
    /\ idx = 1 /\ records = <<>>
    /\ todo = {} /\ foses = <<>>
    /\ last = [op |-> "download_publications"]
    /\ before = [json_data |-> None, table_data |-> None, json_foses |-> None]
    /\ fetchLog = <<LogEntry(params, 1)>>
    /\ trail = <<>> /\ sleeps = 0 /\ slept = 0
    /\ written = {} /\ raised = "none" /\ gen = "running" /\ calls = 1 /\ sent = 1
    /\ service = None

NextProcess == ProcessItem

SpecProcess == InitProcess /\ [][NextProcess]_vars

Range(q) == {q[k] : k \in 1..Len(q)}

WordSeqs == SeqsUpTo(Words, MaxLen)

\* the positions (from 0) at which word w stands in the word sequence ws
PositionsOf(ws, w) == {k - 1 : k \in {n \in 1..Len(ws) : ws[n] = w}}

\* ia is an inverted form of ws: its length is that of ws and it maps each
\* distinct word of ws to the positions the word stands at, in some order
InvertedFormOf(ia, ws) ==
    /\ ia.IndexLength = Len(ws)
    /\ Len(ia.InvertedIndex) = Cardinality(Range(ws))
    /\ Range(ia.InvertedIndex) =
           {[word |-> w, positions |-> PositionsOf(ws, w)] : w \in Range(ws)}

\* C11: abstract round-trip.  For every word sequence (repeated words
\* allowed), an entity whose IA is an inverted form of it is yielded with RA
\* equal to the words in their order, joined by single spaces.
AbstractRoundTrip ==
    \A k \in 1..Len(records) : \A ws \in WordSeqs :
        ("IA" \in DOMAIN records[k].raw /\ InvertedFormOf(records[k].raw["IA"], ws))
            => records[k].processed["RA"] = Join(ws, " ")

\* C11's case: the abstract "a b a" has been restored
AbstractRoundTripWitness ==
    /\ Len(records) = 1
    /\ "IA" \in DOMAIN records[1].raw
    /\ InvertedFormOf(records[1].raw["IA"], <<"a", "b", "a">>)
    /\ records[1].raw["IA"].InvertedIndex[1].word = "b"
    /\ records[1].processed["RA"] = "a b a"

NestedFields == {"IA", "AA", "F", "J"}

\* C12: flattening is the identity on entities without nested fields.  An
\* entity with none of IA, AA, F, J is yielded with a processed form that has
\* the same keys and the same values.
FlatteningIdentity ==
    \A k \in 1..Len(records) :
        (DOMAIN records[k].raw) \cap NestedFields = {}
            => records[k].processed = records[k].raw

\* C12's case: an entity with other fields and no nested one was processed
FlatteningIdentityWitness ==
    /\ Len(records) = 1
    /\ (DOMAIN records[1].raw) \cap NestedFields = {}
    /\ {"Ti", "Y"} \subseteq DOMAIN records[1].raw
    /\ records[1].processed = records[1].raw

\* C13, as claimed: a J that is a scalar stays in the processed entity as
\* field J with its value; J is removed only when it is an object or a list.
ScalarJournalKept ==
    \A k \in 1..Len(records) :
        "J" \in DOMAIN records[k].raw =>
            IF records[k].raw["J"].isa = "scalar"
            THEN /\ "J" \in DOMAIN records[k].processed
                 /\ records[k].processed["J"] = records[k].raw["J"]
            ELSE "J" \notin DOMAIN records[k].processed

\* C13, amended: a J that is a scalar passes its value through unchanged to
\* field JN; the J field is removed in all three cases.
ScalarJournalRenamed ==
    \A k \in 1..Len(records) :
        "J" \in DOMAIN records[k].raw =>
            /\ "J" \notin DOMAIN records[k].processed
            /\ "JN" \in DOMAIN records[k].processed
            /\ records[k].raw["J"].isa = "scalar" =>
                   records[k].processed["JN"] = records[k].raw["J"].value
            /\ records[k].raw["J"].isa = "dict" =>
                   records[k].processed["JN"] = records[k].raw["J"]["JN"]

\* C13's case: an entity with a scalar J was processed
ScalarJournalWitness ==
    /\ Len(records) = 1
    /\ "J" \in DOMAIN records[1].raw
    /\ records[1].raw["J"].isa = "scalar"
    /\ records[1].processed["JN"] = "Nature"

\* q's strings with sep between them, built from the last one backwards
RECURSIVE Separated(_, _)
Separated(q, sep) ==
    IF Len(q) = 0 THEN ""
    ELSE IF Len(q) = 1 THEN q[1]
    ELSE Separated(SubSeq(q, 1, Len(q) - 1), sep) \o sep \o q[Len(q)]

\* the decimal text of the author ids in use
IdText(n) == CASE n = 1 -> "1" [] n = 2 -> "2" [] n = 12 -> "12"

ExampleAuthors == <<[AuId |-> 1, DAuN |-> "A Smith"], [AuId |-> 2, DAuN |-> "B Lee"]>>

\* C16: author flattening.  An entity with an AA list is yielded without AA,
\* with DAuN the names and AuId the ids as text, each joined by ";" in list
\* order; the example gives "A Smith;B Lee" and "1;2".
AuthorFlattening ==
    \A k \in 1..Len(records) :
        "AA" \in DOMAIN records[k].raw =>
            LET aa == records[k].raw["AA"]
                out == records[k].processed
            IN  /\ "AA" \notin DOMAIN out
                /\ out["DAuN"] = Separated([n \in 1..Len(aa) |-> aa[n].DAuN], ";")
                /\ out["AuId"] = Separated([n \in 1..Len(aa) |-> IdText(aa[n].AuId)], ";")
                /\ aa = ExampleAuthors =>
                       out["DAuN"] = "A Smith;B Lee" /\ out["AuId"] = "1;2"

\* C16's case: the example's entity was processed
AuthorFlatteningWitness ==
    /\ Len(records) = 1
    /\ "AA" \in DOMAIN records[1].raw
    /\ records[1].raw["AA"] = ExampleAuthors
    /\ records[1].processed["AuId"] = "1;2"

\* the words of `index` that claim position p, in the order of the index
Claimants(index, p) ==
    LET hits == {n \in 1..Len(index) : p \in index[n].positions}
        RECURSIVE Upto(_)
        Upto(n) == IF n = 0 THEN <<>>
                   ELSE Upto(n - 1) \o (IF n \in hits THEN <<index[n].word>> ELSE <<>>)
    IN  Upto(Len(index))

\* the claimants of positions 0 .. len-1, position after position
RECURSIVE ClaimedBelow(_, _)
ClaimedBelow(index, len) ==
    IF len <= 0 THEN <<>>
    ELSE ClaimedBelow(index, len - 1) \o Claimants(index, len - 1)

\* the (word, position) pairs of an abstract with the position below its length
PairsBelow(ia) ==
    {<<n, p>> \in (1..Len(ia.InvertedIndex)) \X (0..(ia.IndexLength - 1)) :
        p \in ia.InvertedIndex[n].positions}

\* the length of the text of n one-letter words joined by single spaces
TextLen(n) == IF n = 0 THEN 0 ELSE 2 * n - 1

\* C17: restoration of any abstract.  RA holds, for the positions 0 ..
\* IndexLength-1 in increasing order, the words claiming the position in the
\* order of the index: none for a position no word claims, all of them for
\* a position several claim; positions from IndexLength on are ignored, and
\* RA has as many words as there are (word, position) pairs below IndexLength.
AbstractRestoration ==
    \A k \in 1..Len(records) :
        "IA" \in DOMAIN records[k].raw =>
            LET ia == records[k].raw["IA"]
                ra == records[k].processed["RA"]
            IN  /\ ra = Separated(ClaimedBelow(ia.InvertedIndex, ia.IndexLength), " ")
                /\ Len(ra) = TextLen(Cardinality(PairsBelow(ia)))

\* C17's case: position 1 unclaimed, position 2 claimed twice, position 3
\* beyond the length
AbstractRestorationWitness ==
    /\ Len(records) = 1
    /\ "IA" \in DOMAIN records[1].raw
    /\ records[1].raw["IA"] =
           [IndexLength |-> 3,
            InvertedIndex |-> <<[word |-> "b", positions |-> {2}],
                                [word |-> "a", positions |-> {0, 2, 3}]>>]
    /\ records[1].processed["RA"] = "a b a"

\* C14: the preconditions of fetch_foses fail fast.  A call made while
\* json_data is unpopulated, or while json_foses is already populated, raises
\* ValueError, issues no fetch call, ends at once, and leaves json_data,
\* table_data, json_foses and the stored parameters as they were.
PreconditionFailFast ==
    [][(/\ pc = "idle"
        /\ last'.op = "fetch_foses"
        /\ (json_data = None \/ json_foses # None))
           => /\ raised' = "ValueError"
              /\ calls' = calls
              /\ pc' = "idle"
              /\ instance' = instance]_vars

\* C14's case: fetch_foses was called with the foses already fetched
PreconditionFailFastWitness ==
    /\ last.op = "fetch_foses"
    /\ before.json_data # None
    /\ before.json_foses # None
    /\ raised = "ValueError"
    /\ json_foses = before.json_foses

\* C15: the stored parameters never change.  No step of any call writes
\* self.params, and every run's first request carries the stored offset,
\* whatever the earlier runs advanced their own offset to.
ParamsImmutable ==
    /\ [][params' = params]_vars
    /\ [](fetchLog # <<>> =>
              /\ fetchLog[1].offset = params.offset
              /\ fetchLog[1].count = params.count)
    /\ [](params.offset \in StartOffsets)

\* C15's case: a run starts at the stored offset after a run that advanced
ParamsImmutableWitness ==
    /\ last.op = "download_publications"
    /\ before.json_data # None
    /\ Len(before.json_data[1]) >= 1
    /\ fetchLog # <<>>
    /\ fetchLog[1].offset = 5
    /\ params.offset = 5

\* C18, as claimed: json_data is populated exactly when table_data is
PopulatedTogether == (json_data = None) <=> (table_data = None)

---------------------------------------------------------------------------
(* One run of yield_records against a service that holds a finite list and *)
(* answers each request with the slice [offset, offset + count) of it.     *)

Min(a, b) == IF a < b THEN a ELSE b

Max(a, b) == IF a < b THEN b ELSE a

\* the longest list a run can page through one entity at a time
MaxList == Min(MaxServed, MaxFetch - 1)

\* the entity at index i of the service's list
Item(i) == [Id |-> i, Ti |-> "t", prob |-> "p", logprob |-> "lp"]

ListOf(m) == [i \in 1..m |-> Item(i - 1)]

\* list[offset : offset + count], for offset >= 0
Slice(list, offset, count) ==
    IF count <= 0 THEN <<>>
    ELSE SubSeq(list, offset + 1, Min(offset + count, Len(list)))

InitList ==
    /\ params \in {NewParams(o, c) : o \in 0..(MaxList + 1), c \in 0..MaxCount}
    /\ service \in {Some(ListOf(m)) : m \in 0..MaxList}
    /\ json_data = None
    /\ json_foses = None
    /\ table_data = None
    /\ pc = "idle"
    /\ req = None /\ downloaded = 0 /\ data = None /\ idx = 0 /\ records = <<>>
    /\ todo = {} /\ foses = <<>>
    /\ last = [op |-> "__init__"]
    /\ before = [json_data |-> None, table_data |-> None, json_foses |-> None]
    /\ fetchLog = <<>> /\ served = <<>> /\ trail = <<>> /\ sleeps = 0 /\ slept = 0
    /\ written = {} /\ raised = "none" /\ gen = "none" /\ calls = 0 /\ sent = 0

\* the one call of download_publications
StartOnce == last.op = "__init__" /\ DownloadStart

\* self.fetch(...) answered by the service
FetchSlice ==
    /\ pc = "fetch"
    /\ service # None
    /\ Fetch(Slice(service[1], req.offset, req.count))

Loop == FetchSlice \/ ProcessItem \/ Advance \/ Sleep

NextList ==
    \/ StartOnce
    \/ FetchSlice
    \/ ProcessItem
    \/ Advance
    \/ Sleep

\* the loop of yield_records never waits for anything but the service's
\* answer and the sleep, and both return
SpecList == InitList /\ [][NextList]_vars /\ WF_vars(Loop)

CeilDiv(a, b) == (a + b - 1) \div b

\* the fetch calls a run over the list takes: the pages holding the entities
\* from the start offset on, and one more
FetchesNeeded == CeilDiv(Max(Len(service[1]) - params.offset, 0), params.count) + 1

\* C19: pagination terminates on a finite result set.  With count >= 1, a
\* run that started always reaches done, and it has then made exactly
\* ceil(max(M - startOffset, 0) / count) + 1 fetch calls, of which the last
\* and only the last returned an empty batch.
ListPaginationHalts ==
    /\ (gen = "running" /\ params.count >= 1) ~> (gen = "done")
    /\ []((gen = "done" /\ params.count >= 1) =>
              /\ Len(fetchLog) = FetchesNeeded
              /\ calls = FetchesNeeded
              /\ \A k \in 1..Len(fetchLog) :
                     (fetchLog[k].returned = 0) <=> (k = Len(fetchLog)))

\* C19's case: a run from offset 1 over three entities, one a page, is done
ListPaginationHaltsWitness ==
    /\ gen = "done"
    /\ params.count = 1 /\ params.offset = 1
    /\ Len(service[1]) = 3
    /\ Len(fetchLog) = 3
    /\ fetchLog[3].returned = 0

\* the list from index startOffset to M-1
Remainder == SubSeq(service[1], params.offset + 1, Len(service[1]))

\* C20, as claimed: whatever the count, the run yields the list from index
\* startOffset to M-1, every entity once and none skipped.
CompleteCoverage ==
    gen = "done" => RowsOf(records, "raw") = Remainder

\* C20, amended: with count >= 1 the run yields the list from index
\* startOffset to M-1, every entity once and none skipped, a partly filled
\* last page included; while it runs it has yielded a prefix of that.
CompleteCoverageFromCountOne ==
    /\ gen \in {"running", "done"} =>
           RowsOf(records, "raw") = SubSeq(Remainder, 1, Len(records))
    /\ (gen = "done" /\ params.count >= 1) => RowsOf(records, "raw") = Remainder

\* C20's case: three entities in pages of two, the last page partly filled
CompleteCoverageWitness ==
    /\ gen = "done"
    /\ params.count = 2 /\ params.offset = 0
    /\ Len(service[1]) = 3
    /\ fetchLog[2].returned = 1
    /\ RowsOf(records, "raw") = <<Item(0), Item(1), Item(2)>>

====
